---- MODULE Spec2Model ----
(***************************************************************************)
(* Model of arcadian_imgfit_stars.js: the Arcadian ad layout.              *)
(*                                                                         *)
(* The page is a single-threaded, event-driven program.  Every handler     *)
(* (window.onAdData, the preloader's completion listener, the controller   *)
(* constructor, a setTimeout / setInterval callback, a mouseover, a        *)
(* $watch listener) runs to completion and is one action here.  Time is a  *)
(* clock in milliseconds that starts when the controller is constructed;   *)
(* a timer callback runs at its deadline, timers with the same deadline    *)
(* in the order they were registered.                                      *)
(***************************************************************************)
EXTENDS Integers, Sequences, FiniteSets, TLC

\* ------------------------------------------------------------ constants

\* Line 21: max allowed duration of the rotation.
AUTO_ROTATE_MAX_DURATION == 30000
\* Line 27: hold time of an item, the period of the auto-cycle interval.
ITEM_HOLD_DUR == 3500
\* Lines 45-50: enum timeout.
TIMEOUT_SHORT == 10
TIMEOUT_MEDIUM == 125
TIMEOUT_LONG == 750
TIMEOUT_EXTRA_LONG == 2000
\* Lines 132-134: delay of the three uniformSize passes.
UNIFORM_DELAY == 500
\* Line 323: initial value of smallestFontSize.
SENTINEL_FONT_SIZE == 1000
\* Line 125: the value this layout assigns to $scope.itemsLimit.
ITEMS_LIMIT == 1
\* Line 578: a payload carries 3 products.
PRODUCT_COUNT == 3

\* Lines 57-62: enum uniformSizeSelector, in the order lines 132-134 use it.
uniformSizeSelector == <<"PRICE", "NAME", "DESCRIPTION">>
Selectors == {uniformSizeSelector[i] : i \in 1..Len(uniformSizeSelector)}

\* A variable declared without an initialiser (lines 74, 80) is undefined.
Undefined == -1
\* undefined in arithmetic gives NaN (line 174 when startCarousel never ran).
NaN == -1

\* --------------------------------------------------------------- bounds

\* The clock advances in steps of TimeStep ms (and to every timer deadline)
\* up to MaxTime ms after the controller was constructed.
TimeStep == 1750
MaxTime == 36000
\* Number of mouseover events considered.
MaxHovers == 2
\* Values of itemsLimit considered by the configuration-generic
\* specification SpecCfg (the shipped configuration is ITEMS_LIMIT).
MaxItemsLimit == 3
\* Font sizes (px) of the elements of a uniformSize group.
MinFontSize == 8
MaxFontSize == 10
\* Number of elements of a uniformSize group.
MaxGroup == 2
\* Number of changes of the watched logo location.
MaxLocChanges == 2
\* Number of records of one kind in a payload offered to the schema.
MaxRecords == 4

VARIABLES
  pc,                 \* position of the page in its life cycle
  preloaderLog,       \* calls made on utils.preloader, in order
  onAdDataCalls,      \* number of calls of utils.onAdData
  itemsLimit,         \* $scope.itemsLimit
  currentItemIndex,   \* $scope.currentItemIndex
  autoCycleInterval,  \* line 74: handle of the last interval, or Undefined
  autoCycleStartTime, \* line 80: start time of the carousel, or Undefined
  timers,             \* pending setTimeout / live setInterval timers
  nextTimerId,        \* next handle window.setTimeout/setInterval returns
  now,                \* clock, ms since the controller was constructed
  isIE,               \* helpers.isIE()
  fontStatus,         \* state of the WebFont.load request
  broadcasts,         \* number of 'fontsLoaded' broadcasts
  containerVisible,   \* #ad-container style.visibility = 'visible'
  layoutShown,        \* class 'hide' removed from .layout
  animationBuilt,     \* buildAnimation has run
  textFitRuns,        \* number of rounds of customExtTextFit
  uniformRuns,        \* selectors uniformSize has run for
  dom,                \* the elements of the three uniformSize groups
  hovers,             \* number of mouseover events so far
  lastTick,           \* the last run of $scope.nextItem
  adStartTime,        \* time of the fontsLoaded handler, or Undefined
  logo,               \* state of the customLogoFit directive
  schema,             \* state of the layout specification (occurrences)
  products            \* $scope.products: price and salePrice of each product

vars == <<pc, preloaderLog, onAdDataCalls, itemsLimit, currentItemIndex,
          autoCycleInterval, autoCycleStartTime, timers, nextTimerId, now,
          isIE, fontStatus, broadcasts, containerVisible, layoutShown,
          animationBuilt, textFitRuns, uniformRuns, dom, hovers, lastTick,
          adStartTime, logo, schema, products>>

preloadVars == <<preloaderLog, onAdDataCalls>>
carouselVars == <<itemsLimit, currentItemIndex, autoCycleInterval,
                  autoCycleStartTime, hovers, lastTick>>
fontVars == <<isIE, fontStatus, broadcasts, containerVisible, textFitRuns,
              adStartTime>>
revealVars == <<layoutShown, animationBuilt>>
uniformVars == <<uniformRuns, dom>>
otherVars == <<logo, schema, products>>

\* ------------------------------------------------- uniformSize (322-349)

\* getAttribute('minfontsize') of an element without the attribute is null,
\* and null compares as the number 0 (line 333).
NoAttribute == 0

\* A JavaScript value of the scan: a number, or a string holding the decimal
\* numeral of n (what getAttribute returns for minfontsize="12").
JsNumber(n) == [str |-> FALSE, n |-> n]
JsString(n) == [str |-> TRUE, n |-> n]

RECURSIVE Digits(_)
\* The decimal numeral of n, as the sequence of its digits.
Digits(n) == IF n < 10 THEN <<n>> ELSE Append(Digits(n \div 10), n % 10)

\* s < t for two strings of digits: JavaScript compares two strings
\* lexicographically, code unit by code unit.
LexLess(s, t) ==
  \E i \in 1..(Len(s) + 1) :
    /\ \A j \in 1..(i - 1) : j <= Len(t) /\ s[j] = t[j]
    /\ \/ i > Len(s) /\ i <= Len(t)
       \/ i <= Len(s) /\ i <= Len(t) /\ s[i] < t[i]

\* a < b in JavaScript: lexicographic when both operands are strings,
\* numeric otherwise.
JsLess(a, b) ==
  IF a.str /\ b.str THEN LexLess(Digits(a.n), Digits(b.n)) ELSE a.n < b.n

\* Lines 329-335: the font size of one visible span, clamped to the floor its
\* parent element configures.  The clamped value is the attribute's string.
ClampedFontSize(e) ==
  IF e.minfontsize # NoAttribute /\ e.fontSize < e.minfontsize
  THEN JsString(e.minfontsize)
  ELSE JsNumber(e.fontSize)

\* ScanStep without the visibility test of line 328.
ScanStep_IgnoresVisibility(smallest, e) ==
  IF JsLess(ClampedFontSize(e), smallest)
  THEN ClampedFontSize(e)
  ELSE smallest

\* Lines 326-339: one iteration of the scan over the group's spans.
ScanStep(smallest, e) ==
  IF e.visible /\ JsLess(ClampedFontSize(e), smallest)
  THEN ClampedFontSize(e)
  ELSE smallest

RECURSIVE ScanFrom(_, _, _)
\* Lines 325-340: the scan, from span i on, in document order.
ScanFrom(group, i, smallest) ==
  IF i > Len(group) THEN smallest
  ELSE ScanFrom(group, i + 1, ScanStep(smallest, group[i]))

\* Lines 323-340: smallestFontSize after the scan.
SmallestFontSize(group) == ScanFrom(group, 1, JsNumber(SENTINEL_FONT_SIZE))

\* Lines 343-348: every element of the group and its span get the inline
\* font size smallestFontSize + 'px'.  fontSize stays the size the scan read.
UniformSize(group) ==
  [i \in 1..Len(group) |->
     [group[i] EXCEPT !.elFont = SmallestFontSize(group).n,
                      !.spanFont = SmallestFontSize(group).n]]

\* An element of a group: its span is laid out (offsetParent non-null) or
\* not, the span's rendered font size, the parent's minfontsize attribute,
\* and the inline font sizes of the element and of its span (0: none set).
Elements ==
  [visible : BOOLEAN,
   fontSize : MinFontSize..MaxFontSize,
   minfontsize : {NoAttribute} \cup (MinFontSize..MaxFontSize),
   elFont : {0},
   spanFont : {0}]

Groups == UNION {[1..n -> Elements] : n \in 0..MaxGroup}

\* The group the page shows for each selector when the fonts are already
\* fitted: one element per product, laid out, sizes above the floor.
DefaultGroup ==
  [i \in 1..PRODUCT_COUNT |->
     [visible |-> TRUE, fontSize |-> MaxFontSize - (i % 2),
      minfontsize |-> MinFontSize, elFont |-> 0, spanFont |-> 0]]

\* ------------------------------------------ layout specification (541-578)

Kinds == {"Headline", "Design", "Product"}

\* OccurrenceDeclarations with the products declared as 1 to 3.
OccurrenceDeclarations_Range ==
  <<[kind |-> "Headline", min |-> 1, max |-> 1],
    [kind |-> "Design", min |-> 1, max |-> 1],
    [kind |-> "Product", min |-> 1, max |-> PRODUCT_COUNT]>>

\* Lines 576-578: the calls of utils.defineOccurrences, in order.
OccurrenceDeclarations ==
  <<[kind |-> "Headline", min |-> 1, max |-> 1],
    [kind |-> "Design", min |-> 1, max |-> 1],
    [kind |-> "Product", min |-> PRODUCT_COUNT, max |-> PRODUCT_COUNT]>>

\* Lines 576-578: the next utils.defineOccurrences(kind, min, max) of the
\* layout specification, which runs when the script is loaded.
DefineOccurrences ==
  /\ schema.step < Len(OccurrenceDeclarations)
  /\ LET d == OccurrenceDeclarations[schema.step + 1]
     IN  schema' = [schema EXCEPT
                      !.step = schema.step + 1,
                      !.occurrences[d.kind] = <<d.min, d.max>>]
  /\ UNCHANGED <<pc, preloadVars, carouselVars, fontVars, revealVars,
                 uniformVars, logo, products, timers, nextTimerId, now>>

\* A payload, by the number of records of each kind it carries.
Payloads == [Kinds -> 0..MaxRecords]

\* The payload is within the declared occurrences of every kind.
WithinOccurrences(payload, occurrences) ==
  \A k \in Kinds :
    /\ occurrences[k] # <<>>
    /\ occurrences[k][1] <= payload[k]
    /\ payload[k] <= occurrences[k][2]

\* The serving runtime offers a payload once the script is loaded; its schema
\* layer accepts it when it is within the declared occurrences, and only an
\* accepted payload is handed to window.onAdData.
OfferPayload(payload) ==
  /\ schema.step = Len(OccurrenceDeclarations)
  /\ schema.verdict = "none"
  /\ schema' = [schema EXCEPT
                  !.payload = payload,
                  !.verdict = IF WithinOccurrences(payload, schema.occurrences)
                              THEN "accepted" ELSE "rejected"]
  /\ UNCHANGED <<pc, preloadVars, carouselVars, fontVars, revealVars,
                 uniformVars, logo, products, timers, nextTimerId, now>>

\* ------------------------------------------------------------- timers

\* window.setTimeout(callback, delay): the timer it registers.  kind names
\* the callback, arg its argument, period = 0 marks a one-shot timer.
Timeout(id, kind, arg, delay) ==
  [id |-> id, kind |-> kind, arg |-> arg, due |-> now + delay, period |-> 0]

\* window.setInterval($scope.nextItem, ITEM_HOLD_DUR) (line 210).
Interval(id) ==
  [id |-> id, kind |-> "nextItem", arg |-> "", due |-> now + ITEM_HOLD_DUR,
   period |-> ITEM_HOLD_DUR]

\* clearInterval(handle): no effect when no live timer has this handle.
ClearInterval(ts, handle) == {u \in ts : u.id # handle}

\* The event loop runs timer t now: it is due and no pending timer is due
\* earlier, or as early and registered before it.
Runs(t) ==
  /\ t \in timers
  /\ t.due <= now
  /\ \A u \in timers \ {t} : t.due < u.due \/ (t.due = u.due /\ t.id < u.id)

Min(S) == CHOOSE x \in S : \A y \in S : x <= y

\* ---------------------------------------------- preloading (93-100, 593-604)

\* Lines 593-604, initPreloading: the product images in order, then the logo,
\* then the background.
InitPreloadingCalls ==
  [i \in 1..schema.payload["Product"] |-> [call |-> "addImage", url |-> "product", i |-> i]]
  \o <<[call |-> "addImage", url |-> "logo", i |-> 0],
       [call |-> "addImage", url |-> "background", i |-> 0]>>

\* OnAdDataCalls with the preloader started before the images are registered.
OnAdDataCalls_StartFirst ==
  <<[call |-> "addCompletionListener", url |-> "", i |-> 0],
    [call |-> "start", url |-> "", i |-> 0]>>
  \o InitPreloadingCalls

\* Lines 93-100, window.onAdData: register the images, add the completion
\* listener, start the preloader.
OnAdDataCalls ==
  InitPreloadingCalls
  \o <<[call |-> "addCompletionListener", url |-> "", i |-> 0],
       [call |-> "start", url |-> "", i |-> 0]>>

OnAdData ==
  /\ pc = "loaded"
  /\ schema.verdict = "accepted"
  /\ pc' = "preloading"
  /\ preloaderLog' = preloaderLog \o OnAdDataCalls
  /\ UNCHANGED <<onAdDataCalls, carouselVars, fontVars, revealVars,
                 uniformVars, otherVars, timers, nextTimerId, now>>

\* Lines 95-98: the completion listener, which the preloader calls once the
\* started load is over.  It hands the payload to utils.onAdData.
PreloaderComplete ==
  /\ pc = "preloading"
  /\ Len(preloaderLog) > 0
  /\ preloaderLog[Len(preloaderLog)].call = "start"
  /\ \E k \in 1..Len(preloaderLog) :
       preloaderLog[k].call = "addCompletionListener"
  /\ pc' = "bootstrapped"
  /\ preloaderLog' = Append(preloaderLog,
                            [call |-> "getLoadedImages", url |-> "", i |-> 0])
  /\ onAdDataCalls' = onAdDataCalls + 1
  /\ UNCHANGED <<carouselVars, fontVars, revealVars, uniformVars, otherVars,
                 timers, nextTimerId, now>>

\* ------------------------------------------------ controller (121-139)

\* Lines 357-389, loadFonts: hide the container; request the web font, or on
\* IE schedule the broadcast after timeout.MEDIUM.
LoadFontsTimers ==
  IF isIE THEN {Timeout(nextTimerId, "fontsLoaded", "ie", TIMEOUT_MEDIUM)}
  ELSE {}

\* Prices as the payload carries them; "" and "undefined" (field absent) are
\* the falsy ones.
Prices == {"undefined", "", "$8", "$10"}
Falsy == {"undefined", ""}

\* Line 138 with the operands of || exchanged.
DisplayedPrice_PriceFirst(product) ==
  IF product.price \in Falsy THEN product.salePrice ELSE product.price

\* Line 138: product.salePrice || product.price.
DisplayedPrice(product) ==
  IF product.salePrice \in Falsy THEN product.price ELSE product.salePrice

\* loadFonts leaving the container visible.
LoadFontsVisibility_Visible == TRUE

\* Line 361, loadFonts: el.style.visibility = 'hidden'.
LoadFontsVisibility == FALSE

\* Lines 121-139, LayoutController, with limit the value line 125 assigns.
LayoutController(limit) ==
  /\ pc = "bootstrapped"
  /\ pc' = "running"
  /\ itemsLimit' = limit
  /\ currentItemIndex' = 0
  /\ containerVisible' = LoadFontsVisibility
  /\ fontStatus' = IF isIE THEN "unused" ELSE "loading"
  /\ timers' = timers \cup LoadFontsTimers
  /\ nextTimerId' = nextTimerId + Cardinality(LoadFontsTimers)
  /\ products' = [i \in 1..Len(products) |->
                    [products[i] EXCEPT !.price = DisplayedPrice(products[i])]]
  /\ UNCHANGED <<preloadVars, autoCycleInterval, autoCycleStartTime, hovers,
                 lastTick, isIE, broadcasts, textFitRuns, adStartTime,
                 revealVars, uniformVars, logo, schema, now>>

\* Lines 369-379: WebFont.load reports the font active within its timeout;
\* the callback schedules the broadcast after timeout.SHORT.
FontActive ==
  /\ pc = "running"
  /\ fontStatus = "loading"
  /\ now < TIMEOUT_EXTRA_LONG
  /\ fontStatus' = "active"
  /\ timers' = timers \cup
                 {Timeout(nextTimerId, "fontsLoaded", "active", TIMEOUT_SHORT)}
  /\ nextTimerId' = nextTimerId + 1
  /\ UNCHANGED <<pc, preloadVars, carouselVars, isIE, broadcasts,
                 containerVisible, textFitRuns, adStartTime, revealVars,
                 uniformVars, otherVars, now>>

\* Lines 363-380: the font request fails or times out (timeout.EXTRA_LONG).
\* WebFont.load is given no inactive callback, so nothing is scheduled.
FontInactive ==
  /\ pc = "running"
  /\ fontStatus = "loading"
  /\ fontStatus' = "inactive"
  /\ UNCHANGED <<pc, preloadVars, carouselVars, isIE, broadcasts,
                 containerVisible, textFitRuns, adStartTime, revealVars,
                 uniformVars, otherVars, timers, nextTimerId, now>>

\* ------------------------------------------------- carousel (161-211)

\* StartInterval without the clearInterval of lines 207-209.
StartInterval_NoClear(ts, id) == ts \cup {Interval(id)}

\* StartInterval that keeps a live interval running instead of restarting it.
StartInterval_NoRestart(ts, id) ==
  IF \E u \in ts : u.kind = "nextItem" THEN ts ELSE ts \cup {Interval(id)}

\* Lines 206-211, $scope.startInterval: clear the interval autoCycleInterval
\* names, if it names one, and register a new one with handle id.
StartInterval(ts, id) ==
  (IF autoCycleInterval # Undefined
   THEN ClearInterval(ts, autoCycleInterval) ELSE ts) \cup {Interval(id)}

\* Line 174: new Date().getTime() - autoCycleStartTime.
timeElapsed ==
  IF autoCycleStartTime = Undefined THEN NaN ELSE now - autoCycleStartTime

\* OverMaxDuration with the cap never applied.
OverMaxDuration_Never == FALSE

\* Line 175: timeElapsed > AUTO_ROTATE_MAX_DURATION; false for NaN.
OverMaxDuration == timeElapsed # NaN /\ timeElapsed > AUTO_ROTATE_MAX_DURATION

\* Lines 183-187: the index of the next item.
NextIndex(index) == IF index + 1 < itemsLimit THEN index + 1 ELSE 0

\* Lines 172-190, $scope.nextItem, run by the interval timer t.
NextItem(t) ==
  /\ pc = "running"
  /\ Runs(t)
  /\ t.kind = "nextItem"
  /\ LET rearmed == (timers \ {t}) \cup {[t EXCEPT !.due = t.due + t.period]}
     IN  IF OverMaxDuration
         THEN /\ timers' = ClearInterval(rearmed, autoCycleInterval)
              /\ currentItemIndex' = 0
              /\ lastTick' = [branch |-> "stop", at |-> now,
                              from |-> currentItemIndex]
         ELSE /\ timers' = rearmed
              /\ currentItemIndex' = NextIndex(currentItemIndex)
              /\ lastTick' = [branch |-> "advance", at |-> now,
                              from |-> currentItemIndex]
  /\ UNCHANGED <<pc, preloadVars, itemsLimit, autoCycleInterval,
                 autoCycleStartTime, hovers, fontVars, revealVars,
                 uniformVars, otherVars, nextTimerId, now>>

\* The items the template renders with the set-item attribute: one per
\* product, $index counting from 0.
RenderedItems == 0..(schema.payload["Product"] - 1)

\* Lines 455-459, the mouseover handler of setItem on the item with $index
\* index.  A hidden container receives no mouse events.
Hover(index) ==
  /\ pc = "running"
  /\ containerVisible
  /\ hovers < MaxHovers
  /\ hovers' = hovers + 1
  /\ currentItemIndex' = index
  /\ timers' = StartInterval(timers, nextTimerId)
  /\ autoCycleInterval' = nextTimerId
  /\ nextTimerId' = nextTimerId + 1
  /\ UNCHANGED <<pc, preloadVars, itemsLimit, autoCycleStartTime, lastTick,
                 fontVars, revealVars, uniformVars, otherVars, now>>

\* ------------------------------------------- load sequence (130-155, 219)

\* LayoutInitTimeouts with the animation build registered before the reveal.
LayoutInitTimeouts_BuildFirst(id) ==
  {Timeout(id, "buildAnimation", "", TIMEOUT_MEDIUM),
   Timeout(id + 1, "showLayout", "", TIMEOUT_MEDIUM)}

\* Lines 149-154: showLayout and then layoutInit each register a timeout of
\* timeout.MEDIUM, in this order.
LayoutInitTimeouts(id) ==
  {Timeout(id, "showLayout", "", TIMEOUT_MEDIUM),
   Timeout(id + 1, "buildAnimation", "", TIMEOUT_MEDIUM)}

\* The three uniformSize passes, each scheduled twice.
UniformSizeTimeouts_Twice(id) ==
  {Timeout(id + k - 1, "uniformSize",
           uniformSizeSelector[((k - 1) % Len(uniformSizeSelector)) + 1],
           UNIFORM_DELAY) :
     k \in 1..(2 * Len(uniformSizeSelector))}

\* Lines 132-134: the three uniformSize passes.
UniformSizeTimeouts(id) ==
  {Timeout(id + k - 1, "uniformSize", uniformSizeSelector[k], UNIFORM_DELAY) :
     k \in 1..Len(uniformSizeSelector)}

\* Lines 146-148: layoutInit starts the carousel when there are several items.
StartsCarousel == itemsLimit > 1

\* The callback of lines 372-378 / 382-387, run by timeout t: broadcast
\* 'fontsLoaded' and show the container.  The broadcast runs the controller's
\* listener (lines 130-135: layoutInit, then the uniformSize timeouts) and
\* the listeners of customExtTextFit (lines 421-423).
FontsLoaded(t) ==
  /\ pc = "running"
  /\ Runs(t)
  /\ t.kind = "fontsLoaded"
  /\ LET first == IF StartsCarousel THEN nextTimerId + 1 ELSE nextTimerId
         rest == timers \ {t}
     IN  /\ timers' = (IF StartsCarousel THEN StartInterval(rest, nextTimerId)
                       ELSE rest)
                      \cup LayoutInitTimeouts(first)
                      \cup UniformSizeTimeouts(first + 2)
         /\ nextTimerId' = first + 2 + Len(uniformSizeSelector)
  /\ autoCycleStartTime' = IF StartsCarousel THEN now ELSE autoCycleStartTime
  /\ autoCycleInterval' = IF StartsCarousel THEN nextTimerId
                          ELSE autoCycleInterval
  /\ broadcasts' = broadcasts + 1
  /\ textFitRuns' = textFitRuns + 1
  /\ adStartTime' = now
  /\ containerVisible' = TRUE
  /\ UNCHANGED <<pc, preloadVars, itemsLimit, currentItemIndex, hovers,
                 lastTick, isIE, fontStatus, revealVars, uniformVars,
                 otherVars, now>>

\* Lines 220-222: the timeout of showLayout removes the class 'hide'.
ShowLayout(t) ==
  /\ pc = "running"
  /\ Runs(t)
  /\ t.kind = "showLayout"
  /\ timers' = timers \ {t}
  /\ layoutShown' = TRUE
  /\ UNCHANGED <<pc, preloadVars, carouselVars, fontVars, animationBuilt,
                 uniformVars, otherVars, nextTimerId, now>>

\* Lines 152-154 and 230-295: the timeout of layoutInit builds the animation.
BuildAnimation(t) ==
  /\ pc = "running"
  /\ Runs(t)
  /\ t.kind = "buildAnimation"
  /\ timers' = timers \ {t}
  /\ animationBuilt' = TRUE
  /\ UNCHANGED <<pc, preloadVars, carouselVars, fontVars, layoutShown,
                 uniformVars, otherVars, nextTimerId, now>>

\* Lines 132-134 and 322-349: a uniformSize pass, for the selector t.arg.
UniformSizeTimeout(t) ==
  /\ pc = "running"
  /\ Runs(t)
  /\ t.kind = "uniformSize"
  /\ timers' = timers \ {t}
  /\ dom' = [dom EXCEPT ![t.arg] = UniformSize(dom[t.arg])]
  /\ uniformRuns' = uniformRuns \cup {t.arg}
  /\ UNCHANGED <<pc, preloadVars, carouselVars, fontVars, revealVars,
                 otherVars, nextTimerId, now>>

\* Time passes while no timer is due: to the next deadline, the end of the
\* font request's timeout, or the next multiple of TimeStep.
Advance ==
  /\ pc = "running"
  /\ now < MaxTime
  /\ \A t \in timers : t.due > now
  /\ fontStatus = "loading" => now < TIMEOUT_EXTRA_LONG
  /\ now' = Min({(now \div TimeStep + 1) * TimeStep}
                \cup {t.due : t \in timers}
                \cup (IF fontStatus = "loading" THEN {TIMEOUT_EXTRA_LONG}
                      ELSE {}))
  /\ UNCHANGED <<pc, preloadVars, carouselVars, fontVars, revealVars,
                 uniformVars, otherVars, timers, nextTimerId>>

\* ------------------------------------------- customLogoFit (470-528)

\* Values the watched expression attrs.loc evaluates to.
LocValues == {"undefined", "", "not a url", "http://logo/a.png",
              "http://logo/b.png"}

\* scope.checkUrl(src): whether src is a usable URL.
checkUrl(src) == src \in {"http://logo/a.png", "http://logo/b.png"}

\* What the fit reads from the page: design.logoPadding (0 when absent),
\* the padding limits in force (LogoPadding.MIN/MAX or the attributes
\* min-logo-padding / max-logo-padding), utils.logoMargin(elem), and the
\* parent's room around a logo of the minimum size (lines 500-503).
LogoEnvs ==
  [logoPadding : {0, 6, 40}, minLogoPadding : {2}, maxLogoPadding : {20},
   margin : {[t |-> 0, r |-> 0, b |-> 0, l |-> 0],
             [t |-> 1, r |-> 2, b |-> 3, l |-> 4]},
   availableHeight : {8, 30}, availableWidth : {30}]

Smaller(a, b) == IF a < b THEN a ELSE b
Larger(a, b) == IF a > b THEN a ELSE b

\* Lines 498-499: the padding, clamped to the limits.
ClampedPadding(env) ==
  Smaller(Larger(env.minLogoPadding, env.logoPadding), env.maxLogoPadding)

\* Lines 504-513: the parent's padding.
ParentPadding(env) ==
  [paddingTop |-> Smaller(env.availableHeight,
                          ClampedPadding(env) + env.margin.t),
   paddingRight |-> Smaller(env.availableWidth,
                            ClampedPadding(env) + env.margin.r),
   paddingBottom |-> Smaller(env.availableHeight,
                             ClampedPadding(env) + env.margin.b),
   paddingLeft |-> Smaller(env.availableWidth,
                           ClampedPadding(env) + env.margin.l)]

NoPadding ==
  [paddingTop |-> 0, paddingRight |-> 0, paddingBottom |-> 0,
   paddingLeft |-> 0]

\* The value of loc changes (the model the expression reads is updated).
LocChange(v) ==
  /\ logo.linked
  /\ logo.changes < MaxLocChanges
  /\ v # logo.loc
  /\ logo' = [logo EXCEPT !.loc = v, !.changes = logo.changes + 1]
  /\ UNCHANGED <<pc, preloadVars, carouselVars, fontVars, revealVars,
                 uniformVars, schema, products, timers, nextTimerId,
                 now>>

\* Lines 476-523, computeSize: what it does to done.
DoneAfterComputeSize == TRUE

\* Line 525 and lines 476-523: a digest finds the watched value new (the
\* first digest always does) and calls computeSize.
ComputeSize ==
  /\ logo.linked
  /\ logo.watched # logo.loc
  /\ LET fits == ~logo.done /\ checkUrl(logo.loc)
     IN  /\ timers' = IF fits
                      THEN timers \cup
                             {Timeout(nextTimerId, "logoFit", logo.loc, 0)}
                      ELSE timers
         /\ nextTimerId' = IF fits THEN nextTimerId + 1 ELSE nextTimerId
  /\ logo' = [logo EXCEPT
                !.watched = logo.loc,
                !.done = IF logo.done THEN TRUE ELSE DoneAfterComputeSize]
  /\ UNCHANGED <<pc, preloadVars, carouselVars, fontVars, revealVars,
                 uniformVars, schema, products, now>>

\* Lines 482-519: the timeout of computeSize pads the parent, fits the image
\* to the src computeSize read, and sets isLogoPlaced.
LogoFit(t) ==
  /\ Runs(t)
  /\ t.kind = "logoFit"
  /\ timers' = timers \ {t}
  /\ logo' = [logo EXCEPT
                !.parentPadding = ParentPadding(logo.env),
                !.fitSrc = t.arg,
                !.isLogoPlaced = TRUE]
  /\ UNCHANGED <<pc, preloadVars, carouselVars, fontVars, revealVars,
                 uniformVars, schema, products, nextTimerId, now>>

\* ------------------------------------------------------- specifications

\* The logo directive before it is linked.
LogoUnlinked ==
  [linked |-> FALSE, loc |-> "undefined", watched |-> "<init>",
   done |-> FALSE, isLogoPlaced |-> FALSE, fitSrc |-> "", changes |-> 0,
   parentPadding |-> NoPadding,
   env |-> CHOOSE e \in LogoEnvs : TRUE]

\* The layout specification once the script is loaded and a payload with
\* the declared occurrences is accepted.
SchemaAccepted ==
  [step |-> Len(OccurrenceDeclarations),
   occurrences |-> [k \in Kinds |->
                      IF k = "Product" THEN <<PRODUCT_COUNT, PRODUCT_COUNT>>
                      ELSE <<1, 1>>],
   payload |-> [k \in Kinds |-> IF k = "Product" THEN PRODUCT_COUNT ELSE 1],
   verdict |-> "accepted"]

\* The products of a payload: one on sale, one at its price, one without
\* prices.
DefaultProducts ==
  <<[name |-> "A", price |-> "$10", salePrice |-> "$8"],
    [name |-> "B", price |-> "$10", salePrice |-> ""],
    [name |-> "C", price |-> "undefined", salePrice |-> "undefined"]>>

\* The page when the script starts to load.
Init ==
  /\ pc = "loaded"
  /\ preloaderLog = <<>>
  /\ onAdDataCalls = 0
  /\ itemsLimit = Undefined
  /\ currentItemIndex = Undefined
  /\ autoCycleInterval = Undefined
  /\ autoCycleStartTime = Undefined
  /\ timers = {}
  /\ nextTimerId = 1
  /\ now = 0
  /\ isIE \in BOOLEAN
  /\ fontStatus = "none"
  /\ broadcasts = 0
  /\ containerVisible = TRUE
  /\ layoutShown = FALSE
  /\ animationBuilt = FALSE
  /\ textFitRuns = 0
  /\ uniformRuns = {}
  /\ dom = [s \in Selectors |-> DefaultGroup]
  /\ hovers = 0
  /\ lastTick = [branch |-> "none", at |-> 0, from |-> 0]
  /\ adStartTime = Undefined
  /\ logo = LogoUnlinked
  /\ products = DefaultProducts
  /\ schema = [step |-> 0, occurrences |-> [k \in Kinds |-> <<>>],
               payload |-> [k \in Kinds |-> 0], verdict |-> "none"]

\* The steps of the page whatever line 125 assigns.
Page ==
  \/ DefineOccurrences
  \/ \E payload \in Payloads : OfferPayload(payload)
  \/ OnAdData
  \/ PreloaderComplete
  \/ FontActive
  \/ FontInactive
  \/ \E t \in timers : FontsLoaded(t)
  \/ \E t \in timers : ShowLayout(t)
  \/ \E t \in timers : BuildAnimation(t)
  \/ \E t \in timers : UniformSizeTimeout(t)
  \/ \E t \in timers : NextItem(t)
  \/ \E index \in RenderedItems : Hover(index)
  \/ Advance

\* The layout as shipped: line 125 assigns ITEMS_LIMIT.
Next == Page \/ LayoutController(ITEMS_LIMIT)

Spec == Init /\ [][Next]_vars

\* The same code with any item count assigned at line 125.
NextCfg == Page \/ \E limit \in 1..MaxItemsLimit : LayoutController(limit)

SpecCfg == Init /\ [][NextCfg]_vars

\* The page at the time the three uniformSize timeouts are due (on IE:
\* broadcast at timeout.MEDIUM, reveal and build timeout.MEDIUM later), for
\* every content of one of the three groups.
InitUniform ==
  /\ schema = SchemaAccepted
  /\ pc = "running"
  /\ preloaderLog = Append(OnAdDataCalls,
                           [call |-> "getLoadedImages", url |-> "", i |-> 0])
  /\ onAdDataCalls = 1
  /\ itemsLimit = ITEMS_LIMIT
  /\ currentItemIndex = 0
  /\ autoCycleInterval = Undefined
  /\ autoCycleStartTime = Undefined
  /\ now = TIMEOUT_MEDIUM + UNIFORM_DELAY
  /\ timers = {[id |-> 3 + k, kind |-> "uniformSize",
                arg |-> uniformSizeSelector[k],
                due |-> TIMEOUT_MEDIUM + UNIFORM_DELAY, period |-> 0] :
                 k \in 1..Len(uniformSizeSelector)}
  /\ nextTimerId = 4 + Len(uniformSizeSelector)
  /\ isIE = TRUE
  /\ fontStatus = "unused"
  /\ broadcasts = 1
  /\ containerVisible = TRUE
  /\ layoutShown = TRUE
  /\ animationBuilt = TRUE
  /\ textFitRuns = 1
  /\ uniformRuns = {}
  /\ \E sel \in Selectors, group \in Groups :
       dom = [s \in Selectors |-> IF s = sel THEN group ELSE DefaultGroup]
  /\ hovers = 0
  /\ lastTick = [branch |-> "none", at |-> 0, from |-> 0]
  /\ adStartTime = TIMEOUT_MEDIUM
  /\ logo = LogoUnlinked
  /\ products = [i \in 1..Len(DefaultProducts) |->
                  [DefaultProducts[i] EXCEPT
                     !.price = DisplayedPrice(DefaultProducts[i])]]

NextUniform == \E t \in timers : UniformSizeTimeout(t)

SpecUniform == InitUniform /\ [][NextUniform]_vars

\* The page when utils.onAdData has compiled the template and linked the
\* customLogoFit directive, for every first value of loc and every page.
InitLogo ==
  /\ schema = SchemaAccepted
  /\ pc = "bootstrapped"
  /\ preloaderLog = Append(OnAdDataCalls,
                           [call |-> "getLoadedImages", url |-> "", i |-> 0])
  /\ onAdDataCalls = 1
  /\ itemsLimit = Undefined
  /\ currentItemIndex = Undefined
  /\ autoCycleInterval = Undefined
  /\ autoCycleStartTime = Undefined
  /\ timers = {}
  /\ nextTimerId = 1
  /\ now = 0
  /\ isIE = FALSE
  /\ fontStatus = "none"
  /\ broadcasts = 0
  /\ containerVisible = TRUE
  /\ layoutShown = FALSE
  /\ animationBuilt = FALSE
  /\ textFitRuns = 0
  /\ uniformRuns = {}
  /\ dom = [s \in Selectors |-> DefaultGroup]
  /\ hovers = 0
  /\ lastTick = [branch |-> "none", at |-> 0, from |-> 0]
  /\ adStartTime = Undefined
  /\ products = DefaultProducts
  /\ \E loc \in LocValues, env \in LogoEnvs :
       logo = [LogoUnlinked EXCEPT !.linked = TRUE, !.loc = loc, !.env = env]

NextLogo ==
  \/ \E v \in LocValues : LocChange(v)
  \/ ComputeSize
  \/ \E t \in timers : LogoFit(t)

SpecLogo == InitLogo /\ [][NextLogo]_vars

\* ------------------------------------------------- prices (137-139) alone

\* The page bootstrapped with any prices in the payload's products, before
\* the controller is constructed.
InitProducts ==
  /\ schema = SchemaAccepted
  /\ pc = "bootstrapped"
  /\ preloaderLog = Append(OnAdDataCalls,
                           [call |-> "getLoadedImages", url |-> "", i |-> 0])
  /\ onAdDataCalls = 1
  /\ itemsLimit = Undefined
  /\ currentItemIndex = Undefined
  /\ autoCycleInterval = Undefined
  /\ autoCycleStartTime = Undefined
  /\ timers = {}
  /\ nextTimerId = 1
  /\ now = 0
  /\ isIE \in BOOLEAN
  /\ fontStatus = "none"
  /\ broadcasts = 0
  /\ containerVisible = TRUE
  /\ layoutShown = FALSE
  /\ animationBuilt = FALSE
  /\ textFitRuns = 0
  /\ uniformRuns = {}
  /\ dom = [s \in Selectors |-> DefaultGroup]
  /\ hovers = 0
  /\ lastTick = [branch |-> "none", at |-> 0, from |-> 0]
  /\ adStartTime = Undefined
  /\ logo = LogoUnlinked
  /\ \E prices \in [1..PRODUCT_COUNT -> Prices],
        salePrices \in [1..PRODUCT_COUNT -> Prices] :
       products = [i \in 1..PRODUCT_COUNT |->
                     [name |-> DefaultProducts[i].name,
                      price |-> prices[i], salePrice |-> salePrices[i]]]

NextProducts == LayoutController(ITEMS_LIMIT)

SpecProducts == InitProducts /\ [][NextProducts]_vars

\* --------------------------------------------------------------- claims

\* C1: in every reachable state, after any ticks and mouseovers on rendered
\* items, 0 <= currentItemIndex < itemsLimit.
C1_IndexWithinLimit ==
  pc = "running" => 0 <= currentItemIndex /\ currentItemIndex < itemsLimit

\* C2: a tick of nextItem more than AUTO_ROTATE_MAX_DURATION ms after the
\* carousel was started clears the auto-cycle interval and sets
\* currentItemIndex to 0, whatever the index was.
C2_TickOverCapStopsAndResets ==
  [][\A t \in timers :
       (/\ NextItem(t)
        /\ autoCycleStartTime # Undefined
        /\ now - autoCycleStartTime > AUTO_ROTATE_MAX_DURATION)
       => (/\ currentItemIndex' = 0
           /\ \A u \in timers' : u.kind # "nextItem")]_vars

\* C2 witness: a tick over the cap has just stopped the rotation at an index
\* other than 0.
C2_Witness ==
  /\ lastTick.branch = "stop"
  /\ lastTick.at = now
  /\ lastTick.from > 0
  /\ currentItemIndex = 0
  /\ \A u \in timers : u.kind # "nextItem"

\* C3: no tick that takes place more than AUTO_ROTATE_MAX_DURATION ms after
\* the ad started (the fontsLoaded handler ran) advances the item, also when
\* the interval was started by a hover.
C3_NoAdvanceAfterCap ==
  ~(/\ lastTick.branch = "advance"
    /\ adStartTime # Undefined
    /\ lastTick.at - adStartTime > AUTO_ROTATE_MAX_DURATION)

\* The minimum over the visible spans of a group of the rendered font size
\* raised to the element's minfontsize floor.
MinimumClampedSize(group) ==
  Min({Larger(group[i].fontSize, group[i].minfontsize) :
         i \in {j \in 1..Len(group) : group[j].visible}})

\* C4: after uniformSize ran for a group with a visible span, every element
\* of the group and its span have the same font size, the minimum over the
\* visible spans of max(rendered size, minfontsize floor).
C4_UniformIsMinimumClamped ==
  \A sel \in uniformRuns :
    (\E i \in 1..Len(dom[sel]) : dom[sel][i].visible)
    => \A i \in 1..Len(dom[sel]) :
         /\ dom[sel][i].elFont = MinimumClampedSize(dom[sel])
         /\ dom[sel][i].spanFont = MinimumClampedSize(dom[sel])

\* C5: once loadFonts was called and the font request is settled (active,
\* failed or timed out, or not made on IE) and no broadcast is pending,
\* fontsLoaded has been broadcast and the container is visible.
C5_BroadcastWhenFontsSettle ==
  (/\ pc = "running"
   /\ fontStatus # "loading"
   /\ \A t \in timers : t.kind # "fontsLoaded")
  => (broadcasts > 0 /\ containerVisible)

C7_PreloadBeforeInit ==
  /\ \A k \in 1..Len(preloaderLog) :
       preloaderLog[k].call = "start" =>
         /\ \A p \in 1..schema.payload["Product"] :
              \E j \in 1..(k - 1) :
                preloaderLog[j] = [call |-> "addImage", url |-> "product",
                                   i |-> p]
         /\ \A u \in {"logo", "background"} :
              \E j \in 1..(k - 1) :
                preloaderLog[j] = [call |-> "addImage", url |-> u, i |-> 0]
         /\ \E j \in 1..(k - 1) :
              preloaderLog[j].call = "addCompletionListener"
  /\ onAdDataCalls =
       Cardinality({k \in 1..Len(preloaderLog) :
                      preloaderLog[k].call = "getLoadedImages"})
  /\ pc \in {"loaded", "preloading"} => onAdDataCalls = 0
  /\ pc \in {"bootstrapped", "running"} =>
       /\ onAdDataCalls = 1
       /\ \E k \in 1..Len(preloaderLog) : preloaderLog[k].call = "start"

\* C7 witness: the controller runs after a completed preload of 3 products.
C7_Witness ==
  /\ pc = "running"
  /\ onAdDataCalls = 1
  /\ schema.payload["Product"] = PRODUCT_COUNT
  /\ preloaderLog[Len(preloaderLog)].call = "getLoadedImages"

\* C8: while itemsLimit is 1, no auto-cycle interval is ever live.
C8_NoIntervalForOneItem ==
  itemsLimit = 1 => \A t \in timers : t.kind # "nextItem"

\* C9: once the digests have caught up with a loc that checkUrl accepts and
\* no fit is pending, the logo is fitted and isLogoPlaced is true.
C9_LogoPlacedOnceUrlValid ==
  (/\ logo.linked
   /\ checkUrl(logo.loc)
   /\ logo.watched = logo.loc
   /\ \A t \in timers : t.kind # "logoFit")
  => (logo.isLogoPlaced /\ logo.fitSrc # "")

\* C10: the declared occurrences are exactly 1 Headline, 1 Design and 3
\* Products (minimum = maximum), so a payload is within them exactly when it
\* carries these numbers of records.
C10_ExactOccurrences ==
  /\ schema.step = Len(OccurrenceDeclarations) =>
       /\ schema.occurrences["Headline"] = <<1, 1>>
       /\ schema.occurrences["Design"] = <<1, 1>>
       /\ schema.occurrences["Product"] = <<3, 3>>
  /\ schema.verdict # "none" =>
       (schema.verdict = "accepted"
        <=> (/\ schema.payload["Headline"] = 1
             /\ schema.payload["Design"] = 1
             /\ schema.payload["Product"] = 3))

\* C10 witness: a payload with one product too few has been refused.
C10_Witness ==
  /\ schema.verdict = "rejected"
  /\ schema.payload["Headline"] = 1
  /\ schema.payload["Design"] = 1
  /\ schema.payload["Product"] = 2

\* The live auto-cycle intervals: the timers that call $scope.nextItem.
LiveIntervals == {t \in timers : t.kind = "nextItem"}

\* C11: at most one auto-cycle interval is live at any time, after any
\* startCarousel, startInterval, hover and nextItem steps.
C11_AtMostOneInterval == Cardinality(LiveIntervals) <= 1

\* C11 witness: the cap has cleared the interval and a later hover has
\* started one again.
C11_Witness ==
  /\ lastTick.branch = "stop"
  /\ hovers > 0
  /\ now > lastTick.at
  /\ Cardinality(LiveIntervals) = 1

\* C12: a mouseover on item i sets currentItemIndex to i and restarts the
\* hold timer, so that every live interval next fires ITEM_HOLD_DUR ms after
\* the hover, and it leaves the carousel start time unchanged.
C12_HoverSetsItemAndRestartsHold ==
  [][\A index \in RenderedItems :
       Hover(index)
       => (/\ currentItemIndex' = index
           /\ LiveIntervals' # {}
           /\ \A u \in LiveIntervals' : u.due = now + ITEM_HOLD_DUR
           /\ now' = now
           /\ autoCycleStartTime' = autoCycleStartTime)]_vars

\* C12 witness: a hover on the last item, part of the way through the hold
\* period of a running carousel, has restarted the hold timer.
C12_Witness ==
  /\ hovers > 0
  /\ autoCycleStartTime # Undefined
  /\ lastTick.branch = "advance"
  /\ now > lastTick.at
  /\ now < lastTick.at + ITEM_HOLD_DUR
  /\ currentItemIndex = PRODUCT_COUNT - 1
  /\ \E u \in LiveIntervals : u.due = now + ITEM_HOLD_DUR

Pending(kind, arg) == {t \in timers : t.kind = kind /\ t.arg = arg}

\* C14: from the call of loadFonts until the fontsLoaded broadcast the ad
\* container is hidden, and the layout reveal, the text fitting and the three
\* uniformSize passes have neither run nor been scheduled.
C14_NothingBeforeFontsLoaded ==
  (pc = "running" /\ broadcasts = 0)
  => (/\ ~containerVisible
      /\ ~layoutShown
      /\ ~animationBuilt
      /\ textFitRuns = 0
      /\ uniformRuns = {}
      /\ \A t \in timers : t.kind \notin {"showLayout", "uniformSize"})

\* C14 witness: after the broadcast the container is visible, the layout is
\* revealed, the text is fitted and the three passes have run.
C14_Witness ==
  /\ broadcasts = 1
  /\ containerVisible
  /\ layoutShown
  /\ textFitRuns = 1
  /\ uniformRuns = Selectors

\* C15: fontsLoaded is broadcast at most once, so the text is fitted at most
\* once, layoutInit schedules the reveal and the build at most once, each
\* uniformSize pass is scheduled at most once, and the carousel start time,
\* once set by startCarousel, is the time of the broadcast and never changes.
C15_FontsLoadedOnce ==
  /\ [](/\ broadcasts <= 1
        /\ textFitRuns <= 1
        /\ Cardinality(Pending("showLayout", ""))
             + (IF layoutShown THEN 1 ELSE 0) <= 1
        /\ Cardinality(Pending("buildAnimation", ""))
             + (IF animationBuilt THEN 1 ELSE 0) <= 1
        /\ \A sel \in Selectors :
             Cardinality(Pending("uniformSize", sel))
               + (IF sel \in uniformRuns THEN 1 ELSE 0) <= 1
        /\ autoCycleStartTime # Undefined
           => autoCycleStartTime = adStartTime)
  /\ [][autoCycleStartTime # Undefined
        => autoCycleStartTime' = autoCycleStartTime]_vars

\* C15 witness: the broadcast has happened, the carousel has its start time
\* and the three passes have run, long after the broadcast.
C15_Witness ==
  /\ broadcasts = 1
  /\ autoCycleStartTime # Undefined
  /\ uniformRuns = Selectors
  /\ layoutShown
  /\ animationBuilt
  /\ now > adStartTime + AUTO_ROTATE_MAX_DURATION

\* C16: the controller's construction gives every product, as its displayed
\* price, its sale price when one is supplied and is not empty, and its
\* original price otherwise, and leaves salePrice and the product's other
\* fields as they were.
C16_DisplayedPriceIsSalePrice ==
  [][(pc = "bootstrapped" /\ pc' = "running")
     => /\ Len(products') = Len(products)
        /\ \A i \in 1..Len(products) :
             /\ products'[i].price =
                  (IF products[i].salePrice \notin {"undefined", ""}
                   THEN products[i].salePrice ELSE products[i].price)
             /\ products'[i].salePrice = products[i].salePrice
             /\ products'[i].name = products[i].name]_vars

\* C16 witness: the controller is constructed; a product on sale shows its
\* sale price, one with an empty sale price and one without a sale price
\* show their price.
C16_Witness ==
  /\ pc = "running"
  /\ products[1].salePrice = "$8" /\ products[1].price = "$8"
  /\ products[2].salePrice = "" /\ products[2].price = "$10"
  /\ products[3].salePrice = "undefined" /\ products[3].price = "$8"

\* C17: after uniformSize ran for a group none of whose spans is laid out,
\* every element of the group and its span have the font size of the
\* sentinel, 1000px.
C17_SentinelWhenNoneVisible ==
  \A sel \in uniformRuns :
    (\A i \in 1..Len(dom[sel]) : ~dom[sel][i].visible)
    => \A i \in 1..Len(dom[sel]) :
         /\ dom[sel][i].elFont = SENTINEL_FONT_SIZE
         /\ dom[sel][i].spanFont = SENTINEL_FONT_SIZE

\* C17 witness: uniformSize has run for a group of several elements, none
\* laid out, and has written the sentinel to them.
C17_Witness ==
  \E sel \in uniformRuns :
    /\ Len(dom[sel]) > 1
    /\ \A i \in 1..Len(dom[sel]) :
         /\ ~dom[sel][i].visible
         /\ dom[sel][i].elFont = SENTINEL_FONT_SIZE
         /\ dom[sel][i].spanFont = SENTINEL_FONT_SIZE

====
